---- MODULE Spec2Model ----
(***************************************************************************)
(* A model of the chat-bot template: the component view (dropdown ->       *)
(* buttons -> modal) with its text buffer, the owner-only sync command,    *)
(* and the process bootstrap run_bot with its configuration gate.          *)
(*                                                                         *)
(* A Python string is modelled as the sequence of the pieces it was built  *)
(* from: the piece NL is the newline character, every other piece is a run *)
(* of characters without a newline.  Str flattens the pieces to the string *)
(* itself; Lines splits them at the newlines into lines, each the sequence *)
(* of its pieces.                                                          *)
(***************************************************************************)
EXTENDS Integers, Sequences, FiniteSets, TLC

(***************************************************************************)
(* Bounds of the model.                                                    *)
(***************************************************************************)
MaxLines  == 3      \* lines a view's text may reach before presses stop
MaxModals == 2      \* dialogs open at the same time
MaxValues == 2      \* option values delivered by one dropdown selection
MaxGuilds == 2      \* length of the explicit guild list given to sync

ViewIds     == {1}                  \* the messages /start may create
ModalValues == {"hello"}            \* texts a user types into the dialog
GuildIds    == {"g1", "g2"}         \* guild ids a caller may name
TokenValues == {"", "tok"}          \* values TOKEN may be set to

(***************************************************************************)
(* Program constants.                                                      *)
(***************************************************************************)
SELECT_OPTIONS == <<"Value1", "Value2", "Value3">>
ButtonNames    == <<"Button1", "Button2", "Button3">>
Dropdown       == "dropdown_selected"
NL             == "\n"
envs           == << <<"TOKEN", "The Bot Token", "str">> >>

VARIABLES
    views,      \* the ComponentView objects that own a message: [text, children, message]
    message,    \* per view, the components the platform shows on its message
    display,    \* per view, the embed text its message shows and whether the view has
                \* held it; kept only by the specification that follows the display
    modals,     \* the MyModal objects open on the platform
    emitted,    \* the platform calls made by the handler that ran last
    raised,     \* the exception that left the handler that ran last
    last,       \* the handler that ran last and its arguments
    environ,    \* os.environ: the variables that are set, with their values
    entry,      \* the script that runs: "main" (main.py) or "bot" (bot/__main__.py)
    pc,         \* where run_bot stands
    bot,        \* the commands.Bot object: [created, token, cogs, session]
    calls,      \* the calls run_bot made on the bot, in order
    sync        \* the sync command being served: its arguments, locals and calls

viewVars == <<views, message, modals, display>>
bootVars == <<environ, entry, pc, bot, calls>>
vars == <<views, message, modals, display, emitted, raised, last, environ, entry, pc, bot, calls, sync>>

(***************************************************************************)
(* Strings.                                                                *)
(***************************************************************************)
RECURSIVE Str(_)
Str(text) == IF text = <<>> THEN "" ELSE Head(text) \o Str(Tail(text))

\* sep.join(values), as pieces
RECURSIVE join(_, _)
join(sep, values) ==
    IF values = <<>> THEN <<>>
    ELSE IF Len(values) = 1 THEN <<values[1]>>
    ELSE <<values[1], sep>> \o join(sep, Tail(values))

RECURSIVE Lines(_)
Lines(text) ==
    IF text = <<>> THEN <<>>
    ELSE LET rest == Lines(Tail(text))
         IN  IF Head(text) = NL
             THEN << <<>> >> \o (IF rest = <<>> THEN << <<>> >> ELSE rest)
             ELSE IF rest = <<>> THEN << <<Head(text)>> >>
                  ELSE << <<Head(text)>> \o rest[1] >> \o Tail(rest)

\* An embed that is sent without the text.
make_embed_title_only(text) == [title |-> "Component Example", description |-> ""]

make_embed(text) == [title |-> "Component Example", description |-> Str(text)]

Range(seq) == {seq[k] : k \in DOMAIN seq}

(***************************************************************************)
(* ComponentView.__init__: empty text; the decorated select is the only    *)
(* child, the three buttons are created but not added.  The attribute      *)
(* message is annotated on the class and not assigned.                     *)
(***************************************************************************)
None == <<>>

\* A view that adds its buttons when it is constructed.
ComponentView_with_buttons ==
    [text |-> <<>>, children |-> <<Dropdown, "Button1", "Button2", "Button3">>,
     message |-> <<>>]

\* The class declares message: discord.Message and gives it no value.
ComponentView == [text |-> <<>>, children |-> <<Dropdown>>, message |-> None]

\* The line without the space that follows the newline.
pressed_text_no_space(name) == <<NL, name, " was pressed!">>

\* MyButton.callback's line: f"\n {self.name} was pressed!"
pressed_text(name) == <<NL, " ", name, " was pressed!">>

\* MyModal.on_submit's line: f"\n Modal was called and value entered is {value}"
submit_text(value) == <<NL, " Modal was called and value entered is ", value>>

\* dropdown_selected's text: f"{values} selected in select option"
selected_text(values) == join(", ", values) \o <<" selected in select option">>

\* add_item without the membership test.
add_button_always(view, button) == [view EXCEPT !.children = Append(@, button)]

add_button_to_view(view, button) ==
    IF button \notin Range(view.children)
    THEN [view EXCEPT !.children = Append(@, button)]
    ELSE view

\* A selection that appends its line to the log it finds instead of starting it anew.
select_view_keeps_log(view, values) ==
    LET text == IF view.text = <<>> THEN selected_text(values)
                ELSE view.text \o <<NL>> \o selected_text(values)
    IN  [view EXCEPT !.text = text, !.children = <<Dropdown>> \o ButtonNames]

\* The state a view is left in by dropdown_selected, before the edit is awaited.
select_view(view, values) ==
    add_button_to_view(
        add_button_to_view(
            add_button_to_view([view EXCEPT !.text = selected_text(values)],
                               ButtonNames[1]),
            ButtonNames[2]),
        ButtonNames[3])

\* A press that assigns the text instead of appending to it.
press_view_assigns(view, name) == [view EXCEPT !.text = Tail(pressed_text(name))]

\* A press that is dropped when the log already ends with the same line.
press_view_dedup(view, name) ==
    LET n == Len(view.text)
    IN  IF n >= 4 /\ SubSeq(view.text, n - 3, n) = pressed_text(name) THEN view
        ELSE [view EXCEPT !.text = @ \o pressed_text(name)]

\* view.text += f"\n {self.name} was pressed!"
press_view(view, name) == [view EXCEPT !.text = @ \o pressed_text(name)]

\* A submission that assigns the text instead of appending to it.
submit_view_assigns(view, value) == [view EXCEPT !.text = Tail(submit_text(value))]

\* self.view.text += f"\n Modal was called and value entered is {value}"
submit_view(view, value) == [view EXCEPT !.text = @ \o submit_text(value)]

NoException == [exc |-> "none", msg |-> ""]
Exception(exc, msg) == [exc |-> exc, msg |-> msg]

\* A failure of the platform call that is caught and dropped.
await_swallows(ok) == NoException

\* An await of a platform call with no try around it: a failure leaves the handler.
await(ok) == IF ok THEN NoException ELSE Exception("HTTPException", "")

\* The components a message shows: those of the last send or edit that went through.
shown(old, view, ok) == IF ok THEN [components |-> view.children] ELSE old

Call(op, embed, items, ok) == [op |-> op, embed |-> embed, view |-> items, ok |-> ok]

\* select.values: min_values..MaxValues distinct values of SELECT_OPTIONS, in any order
SelectValues ==
    {v \in UNION {[1..n -> Range(SELECT_OPTIONS)] : n \in 1..MaxValues} :
        \A a, b \in DOMAIN v : a # b => v[a] # v[b]}

Remove(seq, k) == SubSeq(seq, 1, k - 1) \o SubSeq(seq, k + 1, Len(seq))

(***************************************************************************)
(* ExampleCog.start_cmd: a new view is sent with the prompt embed.         *)
(***************************************************************************)
start_cmd(ok) ==
    /\ LET view  == ComponentView
           embed == make_embed(<<"Please choose an option to start">>)
       IN  /\ views' = IF ok THEN Append(views, view) ELSE views
           /\ message' = IF ok THEN Append(message, shown(<<>>, view, TRUE))
                         ELSE message
           /\ emitted' = <<Call("send_message", embed, view.children, ok)>>
    /\ raised' = await(ok)
    /\ last' = [op |-> "start", view |-> IF ok THEN Len(views) + 1 ELSE 0, arg |-> <<>>]
    /\ UNCHANGED <<modals, bootVars, sync>>

(***************************************************************************)
(* ComponentView.dropdown_selected                                         *)
(***************************************************************************)
dropdown_selected(i, values, ok) ==
    /\ i \in DOMAIN views
    /\ Dropdown \in Range(message[i].components)
    /\ LET view == select_view(views[i], values)
       IN  /\ views' = [views EXCEPT ![i] = view]
           /\ message' = [message EXCEPT ![i] = shown(@, view, ok)]
           /\ emitted' = <<Call("edit_message", make_embed(view.text), view.children, ok)>>
    /\ raised' = await(ok)
    /\ last' = [op |-> "select", view |-> i, arg |-> values]
    /\ UNCHANGED <<modals, bootVars, sync>>

(***************************************************************************)
(* MyButton.callback: the button must be on the message to be pressed.     *)
(* self.view is the view that added the button.  A modal records the view  *)
(* it was built with; origin notes the message whose button opened it and  *)
(* attached the buttons that were attached to the view before that press.  *)
(***************************************************************************)
\* A dialog that is built on the first view, whichever view it is given.
MyModal_first_view(view) == [view |-> 1]

\* MyModal.__init__: self.view = view
MyModal(view) == [view |-> view]

\* Buttons made once and shared by every view: self.view is the first view.
button_view_shared(i, name) == 1

\* self.view of the button called name on message i: each view makes its own
\* three MyButton objects in __init__ and add_item binds them to that view.
button_view(i, name) == i

callback(i, name, ok) ==
    /\ i \in DOMAIN views
    /\ name \in Range(message[i].components)
    /\ name \in Range(ButtonNames)
    /\ LET v    == button_view(i, name)
           view == press_view(views[v], name)
       IN  /\ views' = [views EXCEPT ![v] = view]
           /\ modals' = IF ok
                        THEN Append(modals,
                                    MyModal(v) @@
                                    [origin |-> i,
                                     attached |-> Range(views[v].children) \ {Dropdown}])
                        ELSE modals
           /\ emitted' = <<Call("send_modal", [title |-> "Enter a value", description |-> ""],
                                <<"text_value">>, ok)>>
    /\ raised' = await(ok)
    /\ last' = [op |-> "press", view |-> i, arg |-> <<name>>]
    /\ UNCHANGED <<message, bootVars, sync>>

(***************************************************************************)
(* MyModal.on_submit: a dialog whose submission failed stays open.         *)
(***************************************************************************)
on_submit(m, value, ok) ==
    /\ m \in DOMAIN modals
    /\ LET i == modals[m].view
           view == submit_view(views[i], value)
       IN  /\ views' = [views EXCEPT ![i] = view]
           /\ message' = [message EXCEPT ![i] = shown(@, view, ok)]
           /\ emitted' = <<Call("edit_message", make_embed(view.text), view.children, ok)>>
           /\ last' = [op |-> "submit", view |-> i, arg |-> <<value>>]
    /\ modals' = IF ok THEN Remove(modals, m) ELSE modals
    /\ raised' = await(ok)
    /\ UNCHANGED <<bootVars, sync>>

\* caller notes who invoked the command and where.
NoSync == [state |-> "idle", guilds |-> <<>>, spec |-> <<>>, idx |-> 0, ret |-> 0,
           calls |-> <<>>, sent |-> <<>>,
           caller |-> [owner |-> FALSE, in_guild |-> FALSE]]

(***************************************************************************)
(* The configuration gate.                                                 *)
(***************************************************************************)
get(env, name) == IF name \in DOMAIN env THEN <<env[name]>> ELSE None

\* e[2](value): str(value) accepts every string; no other type is declared.
converts(type, value) == type = "str"

\* A check that lets a variable that is not set pass.
check_envs_skips_missing(es, env) == NoException

\* assert_envs_exist: the exception it raises, NoException when it returns.
RECURSIVE check_envs(_, _)
check_envs(es, env) ==
    IF es = <<>> THEN NoException
    ELSE LET e     == Head(es)
             ident == e[1] \o "/" \o e[2]
             value == get(env, e[1])
         IN  IF value = None
             THEN Exception("MissingConfigurationException", ident \o " needs to be- defined")
             ELSE IF ~converts(e[3], value[1])
             THEN Exception("MissingConfigurationException",
                            ident \o " is not the required type of " \o e[3])
             ELSE check_envs(Tail(es), env)

assert_envs_exist(env) == check_envs(envs, env)

\* What run_bot registers before it starts the bot, per script.
extensions == <<"bot.core", "bot.example">>
Registered(e) == IF e = "main" THEN <<"CoreCog", "ExampleCog">> ELSE extensions

(***************************************************************************)
(* run_bot, one action per statement that calls out.                       *)
(***************************************************************************)
\* assert_envs_exist()
run_bot_check ==
    /\ pc = "run_bot"
    /\ raised' = assert_envs_exist(environ)
    /\ pc' = IF raised'.exc = "none" THEN "configured" ELSE "exited"
    /\ UNCHANGED <<viewVars, emitted, last, environ, entry, bot, calls, sync>>

\* token = os.environ['TOKEN'] (a KeyError when it is not set); bot = commands.Bot(...)
run_bot_create ==
    /\ pc = "configured"
    /\ LET token == get(environ, "TOKEN")
       IN  /\ bot' = IF token = None THEN bot
                     ELSE [bot EXCEPT !.created = TRUE, !.token = token]
           /\ pc' = IF token = None THEN "exited" ELSE "setup"
           /\ raised' = IF token = None THEN Exception("KeyError", "TOKEN") ELSE raised
    /\ UNCHANGED <<viewVars, emitted, last, environ, entry, calls, sync>>

\* A body that is left without the bot being closed.
unwind_without_close(e) == "exited"

\* Where control goes when the body that uses the bot is left, by return or by
\* exception: to __aexit__ of "async with bot" (main.py), to the finally clause
\* (bot/__main__.py).
unwind(e) == "closing"

\* await bot.add_cog(...) in main.py, await bot.load_extension(ext) in bot/__main__.py
run_bot_register(ok) ==
    /\ pc = "setup"
    /\ LET todo == Registered(entry)
           k    == Len(bot.cogs) + 1
       IN  /\ calls' = Append(calls, <<IF entry = "main" THEN "add_cog" ELSE "load_extension",
                                       todo[k]>>)
           /\ bot' = IF ok THEN [bot EXCEPT !.cogs = Append(@, todo[k])] ELSE bot
           /\ pc' = IF ~ok THEN unwind(entry) ELSE IF k = Len(todo) THEN "start" ELSE "setup"
    /\ raised' = IF ok THEN NoException ELSE Exception("ExtensionError", "")
    /\ UNCHANGED <<viewVars, emitted, last, environ, entry, sync>>

\* await bot.start(token): the platform rejects the login or the bot serves events.
\* An empty token is never accepted by the platform.
run_bot_start(ok) ==
    /\ pc = "start"
    /\ ok => bot.token # <<"">>
    /\ calls' = Append(calls, <<"start", bot.token[1]>>)
    /\ bot' = IF ok THEN [bot EXCEPT !.session = "open"] ELSE bot
    /\ pc' = IF ok THEN "serving" ELSE unwind(entry)
    /\ raised' = IF ok THEN NoException ELSE Exception("LoginFailure", "")
    /\ UNCHANGED <<viewVars, emitted, last, environ, entry, sync>>

\* bot.start returns once the bot was asked to stop.
run_bot_stop ==
    /\ pc = "serving"
    /\ sync.state \in {"idle", "denied", "done"}
    /\ pc' = unwind(entry)
    /\ raised' = NoException
    /\ UNCHANGED <<viewVars, emitted, last, environ, entry, bot, calls, sync>>

\* leaving "async with bot" (main.py), the finally clause (bot/__main__.py)
run_bot_close ==
    /\ pc = "closing"
    /\ calls' = Append(calls, <<"close", "">>)
    /\ bot' = [bot EXCEPT !.session = IF @ = "open" THEN "closed" ELSE @]
    /\ pc' = "exited"
    /\ UNCHANGED <<viewVars, emitted, raised, last, environ, entry, sync>>

(***************************************************************************)
(* CoreCog.sync                                                            *)
(***************************************************************************)
Here == "here"      \* ctx.guild
Global == "global"  \* tree.sync() with no guild

GuildLists == UNION {[1..n -> GuildIds] : n \in 0..MaxGuilds}
Specs == {None, <<"~">>, <<"*">>, <<"^">>}
SyncedCounts == {0, 2}      \* len() of the list tree.sync returns

Sent(content, ok) == [content |-> content, ok |-> ok]
TreeCall(op, scope, ok) == [op |-> op, scope |-> scope, ok |-> ok]

\* The command without its guild_only check.
checks_owner_only(owner, in_guild) ==
    IF ~owner THEN Exception("NotOwner", "") ELSE NoException

\* The checks of the command, guild_only and is_owner: the exception of the first
\* that fails, NoException when both pass.
checks(owner, in_guild) ==
    IF ~in_guild THEN Exception("NoPrivateMessage", "")
    ELSE IF ~owner THEN Exception("NotOwner", "")
    ELSE NoException

\* The checks guild_only and is_owner, then the first statement of the body.
sync_begin(guilds, spec, owner, in_guild) ==
    /\ pc = "serving"
    /\ "CoreCog" \in Range(bot.cogs) \/ "bot.core" \in Range(bot.cogs)
    /\ sync.state \in {"idle", "denied", "done"}
    /\ LET failed == checks(owner, in_guild)
       IN  /\ sync' = [NoSync EXCEPT !.guilds = guilds, !.spec = spec, !.idx = 1,
                          !.caller = [owner |-> owner, in_guild |-> in_guild],
                          !.state = IF failed # NoException THEN "denied"
                                    ELSE IF guilds = <<>> THEN "scope" ELSE "loop"]
           /\ raised' = failed
    /\ UNCHANGED <<viewVars, emitted, last, bootVars>>

\* A report whose two endings are exchanged.
scope_report_swapped(spec, n) ==
    "Synced " \o ToString(n) \o " commands "
        \o (IF spec # None THEN "globally" ELSE "to the current guild.")

scope_report(spec, n) ==
    "Synced " \o ToString(n) \o " commands "
        \o (IF spec = None THEN "globally" ELSE "to the current guild.")

\* if not guilds: ... return.  The sync call notes the number of commands the
\* platform returned, when it returned.
sync_scope(n, ok, sent_ok) ==
    /\ sync.state = "scope"
    /\ LET spec  == sync.spec
           scope == IF spec = None THEN Global ELSE Here
           before == IF spec = <<"*">> THEN <<TreeCall("copy_global_to", Here, TRUE)>>
                     ELSE IF spec = <<"^">> THEN <<TreeCall("clear_commands", Here, TRUE)>>
                     ELSE <<>>
           synced == IF spec = <<"^">> THEN 0 ELSE n
       IN  /\ sync' = [sync EXCEPT !.state = "done",
                          !.calls = before \o <<TreeCall("sync", scope, ok) @@
                                                  [returned |-> IF ok THEN <<n>> ELSE None]>>,
                          !.sent = IF ok THEN <<Sent(scope_report(spec, synced), sent_ok)>>
                                   ELSE <<>>]
           /\ raised' = IF ok THEN await(sent_ok) ELSE await(ok)
    /\ UNCHANGED <<viewVars, emitted, last, bootVars>>

\* The pass without its try: a failed push leaves the command.
sync_guild_no_except(ok) ==
    /\ sync.state = "loop"
    /\ sync.idx <= Len(sync.guilds)
    /\ sync' = [sync EXCEPT !.calls = Append(@, TreeCall("sync", sync.guilds[sync.idx], ok)),
                            !.ret = IF ok THEN @ + 1 ELSE @,
                            !.idx = @ + 1,
                            !.state = IF ok THEN @ ELSE "done"]
    /\ raised' = await(ok)
    /\ UNCHANGED <<viewVars, emitted, last, bootVars>>

\* One pass of "for guild in guilds": try / except discord.HTTPException / else
sync_guild(ok) ==
    /\ sync.state = "loop"
    /\ sync.idx <= Len(sync.guilds)
    /\ sync' = [sync EXCEPT !.calls = Append(@, TreeCall("sync", sync.guilds[sync.idx], ok)),
                            !.ret = IF ok THEN @ + 1 ELSE @,
                            !.idx = @ + 1]
    /\ UNCHANGED <<viewVars, emitted, raised, last, bootVars>>

list_report(ret, n) == "Synced the tree to " \o ToString(ret) \o "/" \o ToString(n) \o "."

\* await ctx.send(f"Synced the tree to {ret}/{len(guilds)}.")
sync_report(sent_ok) ==
    /\ sync.state = "loop"
    /\ sync.idx > Len(sync.guilds)
    /\ sync' = [sync EXCEPT !.state = "done",
                            !.sent = Append(@, Sent(list_report(sync.ret, Len(sync.guilds)),
                                                     sent_ok))]
    /\ raised' = await(sent_ok)
    /\ UNCHANGED <<viewVars, emitted, last, bootVars>>

EnvironChoices == {<<>>} \cup {[name \in {"TOKEN"} |-> v] : v \in TokenValues}

BotInit ==
    /\ views = <<>>
    /\ message = <<>>
    /\ modals = <<>>
    /\ display = <<>>
    /\ emitted = <<>>
    /\ raised = NoException
    /\ last = [op |-> "none", view |-> 0, arg |-> <<>>]
    /\ environ \in EnvironChoices
    /\ entry \in {"main", "bot"}
    /\ pc = "run_bot"
    /\ bot = [created |-> FALSE, token |-> None, cogs |-> <<>>, session |-> "none"]
    /\ calls = <<>>
    /\ sync = NoSync

BotNext ==
    \/ run_bot_check
    \/ run_bot_create
    \/ \E ok \in BOOLEAN : run_bot_register(ok)
    \/ \E ok \in BOOLEAN : run_bot_start(ok)
    \/ run_bot_stop
    \/ run_bot_close
    \/ \E guilds \in GuildLists, spec \in Specs, owner \in BOOLEAN, in_guild \in BOOLEAN :
            sync_begin(guilds, spec, owner, in_guild)
    \/ \E n \in SyncedCounts, ok \in BOOLEAN, sent_ok \in BOOLEAN : sync_scope(n, ok, sent_ok)
    \/ \E ok \in BOOLEAN : sync_guild(ok)
    \/ \E sent_ok \in BOOLEAN : sync_report(sent_ok)

BotSpec == BotInit /\ [][BotNext]_vars

\* Leaving the body is a step of the interpreter, not an event that is waited for.
FairBotSpec == BotSpec /\ WF_vars(run_bot_close)

\* The view machine starts with the bot serving events and no message sent yet.
Init ==
    /\ views = <<>>
    /\ message = <<>>
    /\ modals = <<>>
    /\ display = <<>>
    /\ emitted = <<>>
    /\ raised = NoException
    /\ last = [op |-> "none", view |-> 0, arg |-> <<>>]
    /\ environ = [name \in {"TOKEN"} |-> "tok"]
    /\ entry = "main"
    /\ pc = "serving"
    /\ bot = [created |-> TRUE, token |-> <<"tok">>, cogs |-> <<"CoreCog", "ExampleCog">>,
              session |-> "open"]
    /\ calls = <<>>
    /\ sync = NoSync

\* The bounds: view i has room for one more line; one more dialog may open.
Room(i, lines) == i \in DOMAIN views /\ Len(Lines(views[i].text)) < lines
Opens(ok, open) == ok => Len(modals) < open

Next ==
    \/ \E ok \in BOOLEAN :
            Len(views) < Cardinality(ViewIds) /\ start_cmd(ok) /\ UNCHANGED display
    \/ \E i \in ViewIds, values \in SelectValues, ok \in BOOLEAN :
            dropdown_selected(i, values, ok) /\ UNCHANGED display
    \/ \E i \in ViewIds, name \in Range(ButtonNames), ok \in BOOLEAN :
            /\ Room(i, MaxLines) /\ Opens(ok, MaxModals)
            /\ callback(i, name, ok) /\ UNCHANGED display
    \/ \E m \in 1..MaxModals, value \in ModalValues, ok \in BOOLEAN :
            /\ m \in DOMAIN modals /\ Room(modals[m].view, MaxLines)
            /\ on_submit(m, value, ok) /\ UNCHANGED display

Spec == Init /\ [][Next]_vars

(***************************************************************************)
(* The specification's view of a ComponentView: text_log is the text split *)
(* into lines, attached_widgets the buttons among the view's children.     *)
(***************************************************************************)
text_log(view) == Lines(view.text)
attached_widgets(view) == Range(view.children) \ {Dropdown}
Count(seq, x) == Cardinality({k \in DOMAIN seq : seq[k] = x})
Prefix(a, b) == Len(a) <= Len(b) /\ SubSeq(b, 1, Len(a)) = a
Last(seq) == seq[Len(seq)]
Buttons == Range(ButtonNames)

\* The text an embed shows for a log: its lines joined by newlines.
RECURSIVE Rendered(_)
Rendered(lines) ==
    IF lines = <<>> THEN ""
    ELSE IF Len(lines) = 1 THEN Str(lines[1])
    ELSE Str(lines[1]) \o "\n" \o Rendered(Tail(lines))

EditOf(view, ok) ==
    [op |-> "edit_message",
     embed |-> [title |-> "Component Example", description |-> Rendered(text_log(view))],
     view |-> view.children, ok |-> ok]

(***************************************************************************)
(* C1: every button press appends exactly one line to text_log, the line   *)
(* names the pressed button, the lines before it stay, and a press that    *)
(* repeats the line before it is appended all the same; so N presses after *)
(* a selection leave the selection's line count plus N.                    *)
(***************************************************************************)
C1_PressAppendsOneLine ==
    [][\A i \in ViewIds, name \in Buttons, ok \in BOOLEAN :
          callback(i, name, ok) =>
              LET before == text_log(views[i])
                  after  == text_log(views'[i])
              IN  /\ Len(after) = Len(before) + 1
                  /\ Prefix(before, after)
                  /\ name \in Range(Last(after))
                  /\ Str(Last(after)) = " " \o name \o " was pressed!"]_vars

\* Two presses of the same button right after a selection: three lines.
C1_Witness ==
    /\ last = [op |-> "press", view |-> 1, arg |-> <<"Button1">>]
    /\ Len(text_log(views[1])) = 3
    /\ Str(text_log(views[1])[2]) = " Button1 was pressed!"
    /\ Str(text_log(views[1])[3]) = " Button1 was pressed!"

(***************************************************************************)
(* C2: a selection leaves exactly the three buttons attached, each once,   *)
(* however many selections, presses and submissions came before; no step   *)
(* attaches a fourth widget or a widget twice, and no step detaches one.   *)
(***************************************************************************)
C2_SelectAttachIdempotent ==
    [][\A i \in DOMAIN views :
          /\ attached_widgets(views[i]) \subseteq attached_widgets(views'[i])
          /\ attached_widgets(views'[i]) \subseteq Buttons
          /\ \A b \in Buttons : Count(views'[i].children, b) <= 1
          /\ (\E values \in SelectValues, ok \in BOOLEAN : dropdown_selected(i, values, ok))
                => /\ attached_widgets(views'[i]) = Buttons
                   /\ \A b \in Buttons : Count(views'[i].children, b) = 1]_vars

\* A selection made again after a press and a submission.
C2_Witness ==
    /\ last.op = "select"
    /\ emitted[1].ok
    /\ modals # <<>>
    /\ attached_widgets(views[1]) = Buttons
    /\ Len(views[1].children) = 4

(***************************************************************************)
(* C3: a modal submission appends exactly one line, the line holds the     *)
(* submitted value verbatim, the earlier lines stay, the attached buttons  *)
(* are those attached before the press that opened the modal, and the      *)
(* handler makes one edit_message call carrying the re-rendered text and   *)
(* that set of widgets.                                                    *)
(***************************************************************************)
C3_SubmitAppendsValue ==
    [][\A m \in 1..MaxModals, value \in ModalValues, ok \in BOOLEAN :
          on_submit(m, value, ok) =>
              LET i      == modals[m].view
                  before == text_log(views[i])
                  after  == text_log(views'[i])
              IN  /\ Len(after) = Len(before) + 1
                  /\ Prefix(before, after)
                  /\ value \in Range(Last(after))
                  /\ attached_widgets(views'[i]) = modals[m].attached
                  /\ emitted' = <<EditOf(views'[i], ok)>>
                  /\ attached_widgets(views'[i]) = Range(emitted'[1].view) \ {Dropdown}]_vars

\* A submission right after a selection and one press.
C3_Witness ==
    /\ last = [op |-> "submit", view |-> 1, arg |-> <<"hello">>]
    /\ Len(text_log(views[1])) = 3
    /\ "hello" \in Range(text_log(views[1])[3])
    /\ emitted[1].op = "edit_message" /\ emitted[1].ok
    /\ attached_widgets(views[1]) = Buttons

(***************************************************************************)
(* C4, as claimed: no transition shortens text_log or removes a line that  *)
(* was in it.                                                              *)
(***************************************************************************)
C4_LogNeverShrinks ==
    [][\A i \in DOMAIN views :
          LET before == text_log(views[i])
              after  == text_log(views'[i])
          IN  Len(after) >= Len(before) /\ Prefix(before, after)]_vars

(***************************************************************************)
(* C4, amended: a press and a modal submission keep every line of the log  *)
(* and never shorten it; a selection replaces the log by one line, which   *)
(* removes the lines it held.                                              *)
(***************************************************************************)
C4_LogGrowsBetweenSelections ==
    [][\A i \in DOMAIN views :
          LET before == text_log(views[i])
              after  == text_log(views'[i])
          IN  IF \E values \in SelectValues, ok \in BOOLEAN : dropdown_selected(i, values, ok)
              THEN Len(after) = 1
              ELSE Len(after) >= Len(before) /\ Prefix(before, after)]_vars

\* A selection made while two dialogs opened by earlier presses are still open.
C4_Witness ==
    /\ last.op = "select"
    /\ Len(modals) = 2
    /\ Len(text_log(views[1])) = 1

(***************************************************************************)
(* C5: a selection, from any state, leaves text_log with exactly one line, *)
(* the selected values joined by ", " in the order delivered and followed  *)
(* by " selected in select option", and makes one edit_message call with   *)
(* that text and all three buttons.                                        *)
(***************************************************************************)
RECURSIVE CommaJoined(_)
CommaJoined(values) ==
    IF Len(values) = 1 THEN values[1]
    ELSE CommaJoined(SubSeq(values, 1, Len(values) - 1)) \o ", " \o Last(values)

C5_SelectResetsLog ==
    [][\A i \in ViewIds, values \in SelectValues, ok \in BOOLEAN :
          dropdown_selected(i, values, ok) =>
              LET after == text_log(views'[i])
                  line  == CommaJoined(values) \o " selected in select option"
              IN  /\ Len(after) = 1
                  /\ Str(after[1]) = line
                  /\ emitted' = <<EditOf(views'[i], ok)>>
                  /\ emitted'[1].embed.description = line
                  /\ Range(emitted'[1].view) \ {Dropdown} = Buttons]_vars

\* Two values selected, in the order Value2, Value1, over a log that held presses.
C5_Witness ==
    /\ last = [op |-> "select", view |-> 1, arg |-> <<"Value2", "Value1">>]
    /\ modals # <<>>
    /\ Str(text_log(views[1])[1]) = "Value2, Value1 selected in select option"
    /\ emitted[1].embed.description = "Value2, Value1 selected in select option"

(***************************************************************************)
(* C6: the end-to-end scenario start, select(["Value1", "Value2"]),        *)
(* press("Button1"), submit_modal("hello"), stage by stage; press_line is  *)
(* the second line the press is said to leave.                             *)
(***************************************************************************)
Selected12 == "Value1, Value2 selected in select option"

Scenario(press_line) ==
    \A i \in DOMAIN views :
        LET log == text_log(views[i])
        IN  /\ last = [op |-> "start", view |-> i, arg |-> <<>>]
                => log = <<>> /\ attached_widgets(views[i]) = {}
            /\ last = [op |-> "select", view |-> i, arg |-> <<"Value1", "Value2">>]
                => /\ Len(log) = 1 /\ Str(log[1]) = Selected12
                   /\ attached_widgets(views[i]) = Buttons
            /\ (/\ last = [op |-> "press", view |-> i, arg |-> <<"Button1">>]
                /\ Len(log) = 2 /\ Str(log[1]) = Selected12)
                => Str(log[2]) = press_line
            /\ (/\ last = [op |-> "submit", view |-> i, arg |-> <<"hello">>]
                /\ Len(log) = 3 /\ Str(log[1]) = Selected12
                /\ "Button1" \in Range(log[2]) /\ " was pressed!" \in Range(log[2]))
                => "hello" \in Range(log[3])

\* C6, as claimed: the press leaves the second line "Button1 was pressed!".
C6_EndToEnd == Scenario("Button1 was pressed!")

\* C6, amended: the press leaves the second line " Button1 was pressed!", which
\* starts with the space the code writes after the newline.
C6_EndToEndLeadingSpace == Scenario(" Button1 was pressed!")

\* The end of the scenario: three lines, in that order.
C6_Witness ==
    /\ last = [op |-> "submit", view |-> 1, arg |-> <<"hello">>]
    /\ Len(text_log(views[1])) = 3
    /\ Str(text_log(views[1])[1]) = Selected12
    /\ Str(text_log(views[1])[2]) = " Button1 was pressed!"
    /\ Str(text_log(views[1])[3]) = " Modal was called and value entered is hello"
    /\ attached_widgets(views[1]) = Buttons

(***************************************************************************)
(* C7: sync over an explicit list of N guilds pushes to every guild of the *)
(* list once, in list order, whatever pushes fail with an HTTPException;   *)
(* nothing is raised while it loops; it then makes one send whose content  *)
(* reads "M/N", M the pushes that went through, and raises nothing when    *)
(* that send goes through.                                                 *)
(***************************************************************************)
Succeeded(cs) == Cardinality({k \in DOMAIN cs : cs[k].ok})

C7_SyncListTally ==
    (sync.guilds # <<>> /\ sync.state \in {"loop", "done"}) =>
        LET N == Len(sync.guilds)
        IN  /\ Len(sync.calls) = sync.idx - 1
            /\ Len(sync.calls) <= N
            /\ \A k \in DOMAIN sync.calls :
                  sync.calls[k].op = "sync" /\ sync.calls[k].scope = sync.guilds[k]
            /\ sync.state = "loop" => sync.sent = <<>> /\ raised = NoException
            /\ sync.state = "done" =>
                  /\ Len(sync.calls) = N
                  /\ Len(sync.sent) = 1
                  /\ sync.sent[1].content =
                        "Synced the tree to " \o ToString(Succeeded(sync.calls)) \o "/"
                            \o ToString(N) \o "."
                  /\ sync.sent[1].ok => raised = NoException

\* Two guilds, the first push failed and the second went through: "1/2".
C7_Witness ==
    /\ sync.state = "done"
    /\ sync.guilds = <<"g1", "g2">>
    /\ ~sync.calls[1].ok /\ sync.calls[2].ok
    /\ sync.sent = <<[content |-> "Synced the tree to 1/2.", ok |-> TRUE]>>
    /\ raised = NoException

(***************************************************************************)
(* C8: with TOKEN not set, run_bot ends in assert_envs_exist with the      *)
(* MissingConfigurationException that names TOKEN and its label; no bot is *)
(* created, nothing is registered and no start is attempted.  With TOKEN   *)
(* set to a non-empty string the check raises nothing and run_bot goes on: *)
(* once everything is registered it starts the bot with that token.        *)
(***************************************************************************)
C8_ConfigurationGate ==
    pc # "run_bot" =>
        /\ "TOKEN" \notin DOMAIN environ =>
              /\ pc = "exited"
              /\ raised = [exc |-> "MissingConfigurationException",
                           msg |-> "TOKEN/The Bot Token needs to be- defined"]
              /\ ~bot.created /\ bot.cogs = <<>> /\ bot.session = "none"
              /\ calls = <<>>
        /\ ("TOKEN" \in DOMAIN environ /\ environ["TOKEN"] # "") =>
              /\ raised.exc \notin {"MissingConfigurationException", "KeyError"}
              /\ pc \in {"setup", "start", "serving", "closing", "exited"} => bot.created
              /\ (pc \in {"serving", "closing", "exited"}
                    /\ Len(bot.cogs) = Len(Registered(entry)))
                    => <<"start", environ["TOKEN"]>> \in Range(calls)

\* run_bot has ended on the configuration error.
C8_Witness ==
    /\ "TOKEN" \notin DOMAIN environ
    /\ pc = "exited"
    /\ raised.exc = "MissingConfigurationException"

(***************************************************************************)
(* C9, as claimed: with TOKEN set to the empty string, run_bot ends in the *)
(* configuration check with the configuration error and never starts the   *)
(* bot.                                                                    *)
(***************************************************************************)
C9_EmptyTokenRejected ==
    ("TOKEN" \in DOMAIN environ /\ environ["TOKEN"] = "" /\ pc # "run_bot") =>
        /\ pc = "exited"
        /\ raised.exc = "MissingConfigurationException"
        /\ \A k \in DOMAIN calls : calls[k][1] # "start"

(***************************************************************************)
(* C10: when the platform call of a handler fails, the exception leaves    *)
(* the handler, the view stays where it was and holds what the handler     *)
(* would have left had the call gone through (so that every later event    *)
(* finds the same state), and no widget is attached twice.                 *)
(***************************************************************************)
Kept(i, view) ==
    /\ DOMAIN views' = DOMAIN views
    /\ views' = [views EXCEPT ![i] = view]
    /\ raised' = [exc |-> "HTTPException", msg |-> ""]
    /\ Len(emitted') = 1 /\ ~emitted'[1].ok
    /\ \A b \in Buttons : Count(views'[i].children, b) <= 1

C10_FailedCallKeepsState ==
    [][/\ \A i \in ViewIds, values \in SelectValues :
              dropdown_selected(i, values, FALSE) => Kept(i, select_view(views[i], values))
       /\ \A i \in ViewIds, name \in Buttons :
              callback(i, name, FALSE) => Kept(i, press_view(views[i], name))
       /\ \A m \in 1..MaxModals, value \in ModalValues :
              on_submit(m, value, FALSE) =>
                  Kept(modals[m].view, submit_view(views[modals[m].view], value))]_vars

\* A press whose send_modal failed: the line is in the log, no dialog is open.
C10_Witness ==
    /\ last.op = "press"
    /\ raised.exc = "HTTPException"
    /\ modals = <<>>
    /\ Len(text_log(views[1])) = 2
    /\ attached_widgets(views[1]) = Buttons

(***************************************************************************)
(* C11, as claimed: once /start has sent its message, the view that was    *)
(* sent with it holds the handle of that message (view.message is set, to  *)
(* the message the platform created for it).                               *)
(***************************************************************************)
C11_HandleBound ==
    \A i \in DOMAIN views : views[i].message = <<i>>

(***************************************************************************)
(* Two messages side by side: /start may be invoked twice, and the events  *)
(* of the two messages interleave freely.  One button and one selection    *)
(* are enough to tell the logs of the two views apart.                     *)
(***************************************************************************)
PairIds     == {1, 2}
PairValues  == {<<"Value1", "Value2">>}
PairButtons == {"Button1"}
PairLines   == MaxLines + 1

PairNext ==
    \/ \E ok \in BOOLEAN :
            Len(views) < Cardinality(PairIds) /\ start_cmd(ok) /\ UNCHANGED display
    \/ \E i \in PairIds, values \in PairValues, ok \in BOOLEAN :
            dropdown_selected(i, values, ok) /\ UNCHANGED display
    \/ \E i \in PairIds, name \in PairButtons, ok \in BOOLEAN :
            /\ Room(i, PairLines) /\ Opens(ok, MaxModals)
            /\ callback(i, name, ok) /\ UNCHANGED display
    \/ \E m \in 1..MaxModals, value \in ModalValues, ok \in BOOLEAN :
            /\ m \in DOMAIN modals /\ Room(modals[m].view, PairLines)
            /\ on_submit(m, value, ok) /\ UNCHANGED display

PairSpec == Init /\ [][PairNext]_vars

(***************************************************************************)
(* C12: a dialog opened by a press on a message is bound to the view of    *)
(* that message, however many dialogs are open: every press appends its    *)
(* one line at the end of that view's log and every submission, in         *)
(* whatever order the dialogs are submitted, appends its one line at the   *)
(* end of the same log, so that no line is lost or overwritten and the     *)
(* lines stand in the order in which the events were processed.            *)
(***************************************************************************)
Appended(i, line) ==
    /\ DOMAIN views' = DOMAIN views
    /\ text_log(views'[i]) = Append(text_log(views[i]), line)

C12_SubmissionReachesOpener ==
    [][/\ \A i \in PairIds, name \in PairButtons, ok \in BOOLEAN :
              callback(i, name, ok) =>
                  /\ Appended(i, Tail(pressed_text(name)))
                  /\ ok => /\ Len(modals') = Len(modals) + 1
                           /\ Last(modals').view = i
                           /\ Last(modals').origin = i
       /\ \A m \in 1..MaxModals, value \in ModalValues, ok \in BOOLEAN :
              on_submit(m, value, ok) =>
                  Appended(modals[m].origin, Tail(submit_text(value)))]_vars

\* Two presses on the first message opened two dialogs; one of them has been
\* submitted and the other is still open, while the second message has a log too.
C12_Witness ==
    /\ Len(views) = 2
    /\ last.op = "submit" /\ last.view = 1 /\ raised = NoException
    /\ Len(modals) = 1 /\ modals[1].origin = 1
    /\ Len(text_log(views[1])) = 4
    /\ SubSeq(text_log(views[1]), 2, 4) =
           << Tail(pressed_text("Button1")), Tail(pressed_text("Button1")),
              Tail(submit_text("hello")) >>
    /\ views[2].text # <<>>

(***************************************************************************)
(* C15: the views of two /start invocations are independent: a selection,  *)
(* a press or a submission addressed to one message changes neither the    *)
(* text nor the children of the other view, nor what the other message     *)
(* shows; the buttons of a message belong to the view of that message.     *)
(***************************************************************************)
Untouched(i) ==
    \A j \in DOMAIN views \ {i} : views'[j] = views[j] /\ message'[j] = message[j]

C15_ViewsIndependent ==
    [][/\ \A i \in PairIds, values \in PairValues, ok \in BOOLEAN :
              dropdown_selected(i, values, ok) => Untouched(i)
       /\ \A i \in PairIds, name \in PairButtons, ok \in BOOLEAN :
              callback(i, name, ok) => Untouched(i) /\ views'[i] # views[i]
       /\ \A m \in 1..MaxModals, value \in ModalValues, ok \in BOOLEAN :
              on_submit(m, value, ok) => Untouched(modals[m].origin)]_vars

\* A press on the second message after a press and a submission on the first:
\* each view holds the lines of its own events.
C15_Witness ==
    /\ Len(views) = 2
    /\ last.op = "press" /\ last.view = 2
    /\ Len(text_log(views[2])) = 2
    /\ Len(text_log(views[1])) = 3
    /\ text_log(views[1])[3] = Tail(submit_text("hello"))
    /\ text_log(views[2])[2] = Tail(pressed_text("Button1"))
    /\ attached_widgets(views[1]) = Buttons /\ attached_widgets(views[2]) = Buttons

(***************************************************************************)
(* C13: the bot is closed on every way out of run_bot.  Once the bot has   *)
(* been created, close is called when the body is left (bot.start          *)
(* returned, bot.start failed, or registering a cog or extension failed),  *)
(* it is called once, as the last call before run_bot ends, and it is not  *)
(* called before; no run ends with the session open.                       *)
(***************************************************************************)
Closes == {k \in DOMAIN calls : calls[k][1] = "close"}

C13_SessionReleased ==
    /\ [](/\ (pc = "exited" /\ bot.created) => Closes = {Len(calls)}
          /\ (pc # "exited" \/ ~bot.created) => Closes = {}
          /\ pc = "exited" => bot.session # "open")
    /\ (bot.created /\ pc = "closing") ~> (pc = "exited" /\ Closes = {Len(calls)})

\* bot/__main__.py: loading the second extension failed and the bot was closed.
C13_Witness ==
    /\ entry = "bot" /\ pc = "exited" /\ bot.created
    /\ raised.exc = "ExtensionError"
    /\ calls = << <<"load_extension", "bot.core">>, <<"load_extension", "bot.example">>,
                  <<"close", "">> >>

(***************************************************************************)
(* C14: sync is privileged.  The body of the command runs, and with it     *)
(* every copy, clear and sync call on the tree and every report, only for  *)
(* a caller who is the owner and invokes it in a guild; an invocation      *)
(* that fails a check ends with the exception of that check and has made   *)
(* no call on the tree.                                                    *)
(***************************************************************************)
C14_SyncPrivileged ==
    /\ (sync.calls # <<>> \/ sync.sent # <<>> \/ sync.state \in {"scope", "loop", "done"})
           => sync.caller.owner /\ sync.caller.in_guild
    /\ sync.state = "denied" =>
           /\ ~(sync.caller.owner /\ sync.caller.in_guild)
           /\ sync.calls = <<>> /\ sync.sent = <<>>
           /\ pc = "serving" => raised.exc \in {"NoPrivateMessage", "NotOwner"}

\* The owner asked, outside a guild, to clear and sync: nothing was pushed.
C14_Witness ==
    /\ sync.state = "denied"
    /\ sync.caller.owner /\ ~sync.caller.in_guild
    /\ sync.spec = <<"^">> /\ sync.guilds = <<>>
    /\ raised.exc = "NoPrivateMessage"
    /\ sync.calls = <<>>

(***************************************************************************)
(* The kinds of line a log holds.                                          *)
(***************************************************************************)
IsSelection(line)  == line # <<>> /\ Last(line) = " selected in select option"
IsPress(line)      == Len(line) = 3 /\ line[3] = " was pressed!"
IsSubmission(line) == Len(line) = 2 /\ line[1] = " Modal was called and value entered is "

(***************************************************************************)
(* C16, as claimed: in every reachable state the log of a view is empty or *)
(* starts with a selection line and holds no other selection line, and     *)
(* every submission line in it comes after a press line (that of the press *)
(* which opened the dialog).                                               *)
(***************************************************************************)
C16_SubmissionFollowsPress ==
    \A i \in DOMAIN views :
        LET log == text_log(views[i])
        IN  log = <<>> \/
            /\ IsSelection(log[1])
            /\ \A k \in 2..Len(log) : ~IsSelection(log[k])
            /\ \A k \in 1..Len(log) :
                   IsSubmission(log[k]) => \E j \in 1..(k - 1) : IsPress(log[j])

(***************************************************************************)
(* C17: the buttons attached to a view are none or all three.  They are    *)
(* none exactly while the text is empty, which is exactly while no         *)
(* selection has been processed on the view: a text that is not empty      *)
(* starts with the line of a selection, and a view whose text is empty has *)
(* seen no selection, no press and no submission and has no dialog open.   *)
(***************************************************************************)
C17_WidgetsAllOrNone ==
    \A i \in DOMAIN views :
        LET view == views[i]
        IN  /\ attached_widgets(view) \in {{}, Buttons}
            /\ attached_widgets(view) = {} <=> view.text = <<>>
            /\ view.text # <<>> => IsSelection(text_log(view)[1])
            /\ view.text = <<>> =>
                   /\ ~(last.view = i /\ last.op \in {"select", "press", "submit"})
                   /\ \A m \in DOMAIN modals : modals[m].view # i /\ modals[m].origin # i
                   /\ message[i].components = <<Dropdown>>

\* The first selection failed to edit the message: the three buttons are attached
\* to the view, the text is set, and the message still shows the dropdown alone.
C17_Witness ==
    /\ Len(views) = 1
    /\ last.op = "select" /\ raised.exc = "HTTPException"
    /\ attached_widgets(views[1]) = Buttons
    /\ Len(text_log(views[1])) = 1
    /\ message[1].components = <<Dropdown>>

(***************************************************************************)
(* One message with its display followed: what the message shows is the    *)
(* embed of the last send_message or edit_message that went through; held  *)
(* tells whether that is a value the text of the view has or has had.      *)
(***************************************************************************)
DisplayValues  == {<<"Value1">>, <<"Value2", "Value3">>}
DisplayButtons == {"Button1", "Button2"}
Prompt         == "Please choose an option to start"

Shows(d, cs, text) ==
    LET now == IF cs # <<>> /\ cs[1].op \in {"send_message", "edit_message"} /\ cs[1].ok
               THEN cs[1].embed.description ELSE d.text
    IN  [text |-> now, held |-> now = Str(text) \/ (now = d.text /\ d.held)]

DisplayNext ==
    \/ \E ok \in BOOLEAN :
            /\ Len(views) < Cardinality(ViewIds) /\ start_cmd(ok)
            /\ display' = IF ok
                          THEN Append(display, Shows([text |-> "", held |-> TRUE], emitted', <<>>))
                          ELSE display
    \/ \E i \in ViewIds, values \in DisplayValues, ok \in BOOLEAN :
            /\ dropdown_selected(i, values, ok)
            /\ display' = [display EXCEPT ![i] = Shows(@, emitted', views'[i].text)]
    \/ \E i \in ViewIds, name \in DisplayButtons, ok \in BOOLEAN :
            /\ Room(i, MaxLines) /\ Opens(ok, MaxModals)
            /\ callback(i, name, ok)
            /\ display' = [display EXCEPT ![i] = Shows(@, emitted', views'[i].text)]
    \/ \E m \in 1..MaxModals, value \in ModalValues, ok \in BOOLEAN :
            /\ m \in DOMAIN modals /\ Room(modals[m].view, MaxLines)
            /\ on_submit(m, value, ok)
            /\ display' = [display EXCEPT ![modals[m].view] =
                               Shows(@, emitted', views'[modals[m].view].text)]

DisplaySpec == Init /\ [][DisplayNext]_vars

(***************************************************************************)
(* C18: a press makes one send_modal call and no edit; a selection and a   *)
(* submission make one edit_message call each, with the embed of the whole *)
(* text.  After an edit that went through the message shows the text of    *)
(* the view; after a press the message lacks the line of the press, which  *)
(* the next edit that goes through brings.  After a press or a failed      *)
(* edit the message shows what it showed before, a text that is Earlier.   *)
(***************************************************************************)
Displayed(i, Earlier(_)) ==
    LET now == Rendered(text_log(views[i]))
    IN  /\ (last.view = i /\ last.op = "press") =>
               /\ Len(emitted) = 1 /\ emitted[1].op = "send_modal"
               /\ display[i].text # now
        /\ (last.view = i /\ last.op \in {"select", "submit"}) =>
               /\ Len(emitted) = 1 /\ emitted[1].op = "edit_message"
               /\ emitted[1].embed = [title |-> "Component Example", description |-> now]
               /\ emitted[1].ok => display[i].text = now
        /\ (last.view = i /\ (last.op = "press" \/ raised.exc = "HTTPException")) =>
               Earlier(i)

\* As claimed: a message that lags behind shows a value the text held earlier.
HeldEarlier(i) == display[i].held

C18_ShownTextWasHeld == \A i \in DOMAIN views : Displayed(i, HeldEarlier)

\* As it is: a value the text held earlier, or the prompt that /start sent.
HeldEarlierOrPrompt(i) == display[i].held \/ display[i].text = Prompt

C18_ShownTextWasHeldOrPrompt == \A i \in DOMAIN views : Displayed(i, HeldEarlierOrPrompt)

\* A press and a submission whose edit failed: the message still shows the
\* selection line alone, two lines behind the text of the view.
C18_Witness ==
    /\ Len(views) = 1
    /\ last.op = "submit" /\ raised.exc = "HTTPException"
    /\ Len(text_log(views[1])) = 3
    /\ display[1].text = Str(text_log(views[1])[1])
    /\ display[1].held

(***************************************************************************)
(* C19: sync without a guild list makes one sync call on the tree, global  *)
(* when no spec is given and for the current guild with "~", "*" and "^",  *)
(* after copy_global_to with "*" and after clear_commands with "^", and    *)
(* never enters the loop over the guilds.  Its one report names the number *)
(* of commands the platform returned (0 with "^") and ends with            *)
(* "globally" when no spec is given, with "to the current guild."          *)
(* otherwise.  also_when_failed tells whether the report is held to be     *)
(* sent when the sync call failed, too.                                    *)
(***************************************************************************)
ScopeSynced(also_when_failed) ==
    (sync.state = "done" /\ sync.guilds = <<>>) =>
        /\ sync.calls # <<>>
        /\ LET spec == sync.spec
               call == Last(sync.calls)
           IN  /\ call.op = "sync"
               /\ call.scope = (IF spec = None THEN Global ELSE Here)
               /\ SubSeq(sync.calls, 1, Len(sync.calls) - 1) =
                      (IF spec = <<"*">> THEN <<TreeCall("copy_global_to", Here, TRUE)>>
                       ELSE IF spec = <<"^">> THEN <<TreeCall("clear_commands", Here, TRUE)>>
                       ELSE <<>>)
               /\ sync.idx = 1 /\ sync.ret = 0
               /\ (call.ok \/ also_when_failed) =>
                      /\ Len(sync.sent) = 1
                      /\ sync.sent[1].content =
                             "Synced "
                                 \o ToString(IF spec = <<"^">> THEN 0 ELSE call.returned[1])
                                 \o " commands "
                                 \o (IF spec = None THEN "globally"
                                     ELSE "to the current guild.")
               /\ (~call.ok /\ ~also_when_failed) =>
                      /\ sync.sent = <<>>
                      /\ pc = "serving" => raised.exc = "HTTPException"

\* As claimed: one sync call and one report, always.
C19_ScopeSyncReports == ScopeSynced(TRUE)

\* As it is: one sync call, and one report when that call went through; when it
\* failed its exception leaves the command and nothing is reported.
C19_ScopeSyncReportsUnlessFailed == ScopeSynced(FALSE)

\* "^": the platform returned two commands and the report says 0.
C19_Witness ==
    /\ sync.state = "done" /\ sync.guilds = <<>> /\ sync.spec = <<"^">>
    /\ Len(sync.calls) = 2 /\ sync.calls[1].op = "clear_commands"
    /\ sync.calls[2].returned = <<2>>
    /\ Len(sync.sent) = 1
    /\ sync.sent[1].content = "Synced 0 commands to the current guild."

====
